---- MODULE Spec2Model ----
(***************************************************************************)
(* Knowledge-graph construction and pruning engine (GraphBuilder,          *)
(* src/src/graph/builder.py): node identity and merge-on-repeat,           *)
(* relationship resolution by display text, co-occurrence linking over a   *)
(* forward window, and budget pruning by degree centrality.                *)
(*                                                                         *)
(* Strings that the code formats or compares are sequences of one-letter   *)
(* strings, so that the f-string of add_entity is a real concatenation.    *)
(* Confidences and weights are exact rationals <<numerator, denominator>>  *)
(* in lowest terms (the claims about them are stated in exact arithmetic). *)
(***************************************************************************)
EXTENDS Integers, Sequences, FiniteSets, TLC

VARIABLES
    graph,          \* self.graph: [nodes, data, edges], nodes in dict order
    min_confidence, \* self.min_confidence
    max_nodes,      \* self.max_nodes
    pc,             \* position of build_from_extractions ("files": in its loop) or
                    \* of save_graph ("open_f", "write_f" for each output f), or "idle"
    disk,           \* the files of self.output_dir that save_graph writes
    created,        \* history: live node ids in the order add_entity created them
    seen,           \* history: per live node id, the add_entity calls merged into it
    last,           \* history: the last operation, with its arguments and the
                    \* graph before it where a property needs them
    frames,         \* per calling thread, the add_entity call it is in: position
                    \* and local values
    serialized,     \* whether the callers make one add_entity call at a time
    ingester        \* a WikipediaIngester.fetch_articles call: what wikipedia.page
                    \* answers, the arguments, the position in the loop, the
                    \* articles fetched and saved

vars == <<graph, min_confidence, max_nodes, pc, disk, created, seen, last,
          frames, serialized, ingester>>

None == "None"

----------------------------------------------------------------------------
(* Exact rational arithmetic                                               *)

RECURSIVE GCD(_, _)
GCD(a, b) == IF b = 0 THEN a ELSE GCD(b, a % b)

Abs(x) == IF x < 0 THEN -x ELSE x

Rat(n, d) ==
    LET g == GCD(Abs(n), d) IN IF n = 0 THEN <<0, 1>> ELSE <<n \div g, d \div g>>

RatAdd(p, q) == Rat(p[1] * q[2] + q[1] * p[2], p[2] * q[2])
RatMulInt(p, k) == Rat(p[1] * k, p[2])
RatDivInt(p, k) == Rat(p[1], p[2] * k)
RatLess(p, q) == p[1] * q[2] < q[1] * p[2]
RatGeq(p, q) == ~RatLess(p, q)

----------------------------------------------------------------------------
(* Sequence helpers                                                        *)

Range(s) == {s[i] : i \in 1..Len(s)}
InSeq(x, s) == x \in Range(s)
IndexOf(x, s) == CHOOSE i \in 1..Len(s) : s[i] = x /\ \A j \in 1..(i - 1) : s[j] # x
Injective(s) == \A i, j \in 1..Len(s) : s[i] = s[j] => i = j
Restrict(f, S) == [x \in S |-> f[x]]

----------------------------------------------------------------------------
(* GraphBuilder.__init__: the empty directed graph                         *)

EmptyGraph == [nodes |-> <<>>, data |-> <<>>, edges |-> <<>>]

NodeSet(G) == Range(G.nodes)
EdgeSet(G) == DOMAIN G.edges

----------------------------------------------------------------------------
(* add_entity                                                              *)

\* f"{entity['text']}_{entity['label']}"
node_id(entity) == entity.text \o <<"_">> \o entity.label

\* entity.get('confidence', 1.0)
get_confidence(entity) ==
    IF entity.confidence = None THEN <<1, 1>> ELSE entity.confidence

\* a document id that passes `if doc_id`
Truthy(doc_id) == doc_id # None

\* [doc_id] if doc_id else []
initial_sources(doc_id) == IF Truthy(doc_id) THEN <<doc_id>> ELSE <<>>

\* variant: the membership test is missing
merged_sources_always(sources, doc_id) ==
    IF Truthy(doc_id) THEN Append(sources, doc_id) ELSE sources

\* if doc_id and doc_id not in node_data['sources']: append
merged_sources(sources, doc_id) ==
    IF Truthy(doc_id) /\ ~InSeq(doc_id, sources) THEN Append(sources, doc_id)
    ELSE sources

\* variant: the old mean is weighted by the incremented count
merged_confidence_stale(old_conf, count, new_conf) ==
    RatDivInt(RatAdd(RatMulInt(old_conf, count), new_conf), count)

\* (old_conf * (count - 1) + new_conf) / count, count already incremented
merged_confidence(old_conf, count, new_conf) ==
    RatDivInt(RatAdd(RatMulInt(old_conf, count - 1), new_conf), count)

add_entity(G, entity, doc_id) ==
    LET id == node_id(entity) IN
    IF id \notin NodeSet(G)
    THEN [G EXCEPT
            !.nodes = Append(@, id),
            !.data = @ @@ (id :> [text |-> entity.text,
                                  label |-> entity.label,
                                  confidence |-> get_confidence(entity),
                                  sources |-> initial_sources(doc_id),
                                  count |-> 1])]
    ELSE LET node_data == G.data[id]
             count == node_data.count + 1
         IN [G EXCEPT
                !.data[id].count = count,
                !.data[id].sources = merged_sources(node_data.sources, doc_id),
                !.data[id].confidence =
                    merged_confidence(node_data.confidence, count,
                                      get_confidence(entity))]

\* entity['text'] and entity['label'] in the f-string raise KeyError when the
\* key is absent, before the graph is touched
add_entity_raises(entity) == ~({"text", "label"} \subseteq DOMAIN entity)

----------------------------------------------------------------------------
(* add_relationship                                                        *)

\* [n for n in self.graph.nodes if self.graph.nodes[n]['text'] == text]
nodes_with_text(G, text) ==
    SelectSeq(G.nodes, LAMBDA n : G.data[n].text = text)

\* variant: an existing edge takes the new weight instead of accumulating it
add_relationship_overwrite(G, source, target, rel_type, weight) ==
    LET source_nodes == nodes_with_text(G, source)
        target_nodes == nodes_with_text(G, target)
    IN IF source_nodes # <<>> /\ target_nodes # <<>>
       THEN LET e == <<source_nodes[1], target_nodes[1]>>
            IN IF e \in EdgeSet(G)
               THEN [G EXCEPT !.edges[e].weight = weight,
                              !.edges[e].count = @ + 1]
               ELSE [G EXCEPT !.edges =
                        @ @@ (e :> [type |-> rel_type, weight |-> weight,
                                    count |-> 1])]
       ELSE G

\* variant: a text that matches no node gets a node of its own
add_relationship_creating(G, source, target, rel_type, weight) ==
    LET with_node(H, text) ==
            IF nodes_with_text(H, text) # <<>> THEN H
            ELSE add_entity(H, [text |-> text, label |-> <<"U">>,
                                confidence |-> <<1, 1>>], None)
        H == with_node(with_node(G, source), target)
        e == <<nodes_with_text(H, source)[1], nodes_with_text(H, target)[1]>>
    IN IF e \in EdgeSet(H)
       THEN [H EXCEPT !.edges[e].weight = RatAdd(@, weight),
                      !.edges[e].count = @ + 1]
       ELSE [H EXCEPT !.edges =
                @ @@ (e :> [type |-> rel_type, weight |-> weight, count |-> 1])]

add_relationship(G, source, target, rel_type, weight) ==
    LET source_nodes == nodes_with_text(G, source)
        target_nodes == nodes_with_text(G, target)
    IN IF source_nodes # <<>> /\ target_nodes # <<>>
       THEN LET source_id == source_nodes[1]
                target_id == target_nodes[1]
                e == <<source_id, target_id>>
            IN IF e \in EdgeSet(G)
               THEN [G EXCEPT !.edges[e].weight = RatAdd(@, weight),
                              !.edges[e].count = @ + 1]
               ELSE [G EXCEPT !.edges =
                        @ @@ (e :> [type |-> rel_type, weight |-> weight,
                                    count |-> 1])]
       ELSE G

----------------------------------------------------------------------------
(* _add_cooccurrence_edges                                                 *)

Window == 4
CoOccurs == <<"C", "O">>
\* variant: the weight is left at the default of add_relationship
FullWeight == <<1, 1>>
Half == <<1, 2>>

\* e.get('confidence', 1.0) >= self.min_confidence
above_threshold(entity, threshold) == RatGeq(get_confidence(entity), threshold)

\* variant: the linker reads every entity of the document
entity_texts_unfiltered(entities, threshold) ==
    [i \in 1..Len(entities) |-> entities[i].text]

\* [e['text'] for e in entities if e.get('confidence', 1.0) >= self.min_confidence]
RECURSIVE entity_texts(_, _)
entity_texts(entities, threshold) ==
    IF entities = <<>> THEN <<>>
    ELSE LET rest == entity_texts(Tail(entities), threshold) IN
         IF above_threshold(Head(entities), threshold)
         THEN <<Head(entities).text>> \o rest
         ELSE rest

\* variant: the slice reaches one position further
window_positions_wide(i, n) == {j \in (i + 1)..(i + Window + 1) : j <= n}

\* entity_texts[i+1:i+5], with 1-based positions
window_positions(i, n) == {j \in (i + 1)..(i + Window) : j <= n}

\* the inner loop: targets texts[j], j = from .. last position of the window
RECURSIVE link_targets(_, _, _, _)
link_targets(G, texts, i, j) ==
    IF j \notin window_positions(i, Len(texts)) THEN G
    ELSE link_targets(
            IF texts[i] # texts[j]
            THEN add_relationship(G, texts[i], texts[j], CoOccurs, Half)
            ELSE G,
            texts, i, j + 1)

\* the outer loop: sources texts[i], i = from .. Len(texts)
RECURSIVE link_sources(_, _, _)
link_sources(G, texts, i) ==
    IF i > Len(texts) THEN G
    ELSE link_sources(link_targets(G, texts, i, i + 1), texts, i + 1)

add_cooccurrence_edges(G, entities, threshold) ==
    link_sources(G, entity_texts(entities, threshold), 1)

----------------------------------------------------------------------------
(* build_from_extractions: one extraction file                             *)

\* for entity in data['entities']: if confidence >= min_confidence: add_entity
RECURSIVE add_entities(_, _, _, _)
add_entities(G, entities, doc_id, threshold) ==
    IF entities = <<>> THEN G
    ELSE add_entities(
            IF above_threshold(Head(entities), threshold)
            THEN add_entity(G, Head(entities), doc_id)
            ELSE G,
            Tail(entities), doc_id, threshold)

\* variant: the budget is enforced inside the loop, after each file
ingest_file_pruning(G, data, threshold) ==
    LET G2 == add_cooccurrence_edges(add_entities(G, data.entities, data.doc_id,
                                                  threshold),
                                     data.entities, threshold)
    IN IF Len(G2.nodes) > max_nodes
       THEN [nodes |-> SubSeq(G2.nodes, 1, max_nodes),
             data |-> Restrict(G2.data, Range(SubSeq(G2.nodes, 1, max_nodes))),
             edges |-> Restrict(G2.edges,
                                {e \in DOMAIN G2.edges :
                                    /\ e[1] \in Range(SubSeq(G2.nodes, 1, max_nodes))
                                    /\ e[2] \in Range(SubSeq(G2.nodes, 1, max_nodes))})]
       ELSE G2

ingest_file(G, data, threshold) ==
    add_cooccurrence_edges(
        add_entities(G, data.entities, data.doc_id, threshold),
        data.entities, threshold)

\* a file that open() or json.load() fails on
Unreadable == [error |-> "JSONDecodeError"]
unreadable(data) == "error" \in DOMAIN data

\* position of the first entity of the loop on which add_entity raises, 0 if none
first_raising(entities, threshold) ==
    LET bad == {i \in DOMAIN entities : /\ above_threshold(entities[i], threshold)
                                        /\ add_entity_raises(entities[i])}
    IN IF bad = {} THEN 0 ELSE CHOOSE i \in bad : \A j \in bad : i <= j

\* no try/except around the loop body: the exception leaves build_from_extractions
file_raises(data, threshold) ==
    unreadable(data) \/ first_raising(data.entities, threshold) > 0

entities_before_error(data, threshold) ==
    IF unreadable(data) THEN <<>>
    ELSE SubSeq(data.entities, 1, first_raising(data.entities, threshold) - 1)

\* the graph when the exception leaves: the entities before the failing one are
\* added, the file's co-occurrence edges are not
ingest_until_error(G, data, threshold) ==
    IF unreadable(data) THEN G
    ELSE add_entities(G, entities_before_error(data, threshold), data.doc_id, threshold)

----------------------------------------------------------------------------
(* _prune_graph                                                            *)

InDegree(G, n) == Cardinality({e \in EdgeSet(G) : e[2] = n})
OutDegree(G, n) == Cardinality({e \in EdgeSet(G) : e[1] = n})
Degree(G, n) == InDegree(G, n) + OutDegree(G, n)

\* nx.degree_centrality: 1 for every node when len(G) <= 1, else degree/(N-1)
degree_centrality(G, n) ==
    IF Len(G.nodes) <= 1 THEN <<1, 1>> ELSE Rat(Degree(G, n), Len(G.nodes) - 1)

\* variant: among equal scores the later node goes first
insert_sorted_unstable(G, sorted, x) ==
    LET before == SelectSeq(sorted, LAMBDA y :
                      RatLess(degree_centrality(G, x), degree_centrality(G, y)))
        after == SelectSeq(sorted, LAMBDA y :
                      RatGeq(degree_centrality(G, x), degree_centrality(G, y)))
    IN before \o <<x>> \o after

\* one step of the stable descending sort: x goes after every element whose
\* score is greater than or equal to its own
insert_sorted(G, sorted, x) ==
    LET before == SelectSeq(sorted, LAMBDA y :
                      RatGeq(degree_centrality(G, y), degree_centrality(G, x)))
        after == SelectSeq(sorted, LAMBDA y :
                      RatLess(degree_centrality(G, y), degree_centrality(G, x)))
    IN before \o <<x>> \o after

\* sorted(centrality.items(), key=lambda x: x[1], reverse=True), node part
RECURSIVE sort_prefix(_, _)
sort_prefix(G, k) ==
    IF k = 0 THEN <<>> ELSE insert_sorted(G, sort_prefix(G, k - 1), G.nodes[k])

sorted_nodes(G) == sort_prefix(G, Len(G.nodes))

\* variant: the slice keeps one node too many
nodes_to_keep_one_more(G, m) ==
    LET s == sorted_nodes(G) IN SubSeq(s, 1, IF m + 1 < Len(s) THEN m + 1 ELSE Len(s))

\* sorted_nodes[:self.max_nodes]
nodes_to_keep(G, m) ==
    LET s == sorted_nodes(G) IN SubSeq(s, 1, IF m < Len(s) THEN m ELSE Len(s))

Orderings(S) ==
    {p \in [1..Cardinality(S) -> S] : \A x \in S : \E i \in DOMAIN p : p[i] = x}

\* iteration order of the subgraph view: the graph's own order filtered, unless
\* the kept set is less than half of the graph, when it is the order of a
\* Python set of strings
subgraph_orders(G, keep) ==
    IF 2 * Cardinality(keep) < Len(G.nodes)
    THEN Orderings(keep)
    ELSE {SelectSeq(G.nodes, LAMBDA n : n \in keep)}

\* variant: an edge stays when its source is kept
subgraph_copy_by_source(G, keep, order) ==
    [nodes |-> order,
     data |-> Restrict(G.data, keep),
     edges |-> Restrict(G.edges, {e \in EdgeSet(G) : e[1] \in keep})]

\* self.graph.subgraph(nodes_to_keep).copy() for one iteration order
subgraph_copy(G, keep, order) ==
    [nodes |-> order,
     data |-> Restrict(G.data, keep),
     edges |-> Restrict(G.edges, {e \in EdgeSet(G) : e[1] \in keep /\ e[2] \in keep})]

prune_graph(G, m) ==
    LET keep == Range(nodes_to_keep(G, m)) IN
    {subgraph_copy(G, keep, order) : order \in subgraph_orders(G, keep)}

\* variant: a graph exactly at the budget is pruned too, to one node fewer
prune_if_needed_strict(G, m) ==
    IF Len(G.nodes) >= m /\ m > 0 THEN prune_graph(G, m - 1) ELSE {G}

\* if len(self.graph.nodes) > self.max_nodes: self._prune_graph()
prune_if_needed(G, m) ==
    IF Len(G.nodes) > m THEN prune_graph(G, m) ELSE {G}

----------------------------------------------------------------------------
(* _prepare_graph_for_graphml                                              *)

\* the attributes whose values add_entity stores as Python lists
list_valued == {"sources"}

\* str(['d1', 'd2']) = "['d1', 'd2']", a string: the sequence of its pieces
RECURSIVE repr_items(_)
repr_items(l) ==
    IF l = <<>> THEN <<>>
    ELSE <<"'", Head(l), "'">>
             \o (IF Len(l) > 1 THEN <<",", " ">> ELSE <<>>) \o repr_items(Tail(l))
py_str(l) == <<"[">> \o repr_items(l) \o <<"]">>

\* variant: list values are copied as they are
clean_value_as_is(key, value) == value

\* isinstance(value, list): str(value); int, float, str, bool: value
clean_value(key, value) == IF key \in list_valued THEN py_str(value) ELSE value

cleaned_data(data) == [key \in DOMAIN data |-> clean_value(key, data[key])]

prepare_graph_for_graphml(G) ==
    [nodes |-> G.nodes,
     data  |-> [n \in NodeSet(G) |-> cleaned_data(G.data[n])],
     edges |-> [e \in EdgeSet(G) |-> cleaned_data(G.edges[e])]]

----------------------------------------------------------------------------
(* _save_statistics, _count_entity_types, _get_top_entities                *)

Min(a, b) == IF a < b THEN a ELSE b

\* nx.density of a directed graph: 0 without edges or with at most one node,
\* else m / (n * (n - 1))
density(G) ==
    LET n == Len(G.nodes)
        m == Cardinality(EdgeSet(G))
    IN IF m = 0 \/ n <= 1 THEN <<0, 1>> ELSE Rat(m, n * (n - 1))

\* sum(dict(self.graph.degree()).values()) over the first k nodes
RECURSIVE degree_sum(_, _)
degree_sum(G, k) == IF k = 0 THEN 0 ELSE degree_sum(G, k - 1) + Degree(G, G.nodes[k])

\* variant: every edge is counted once, at its source
avg_degree_out_only(G) ==
    IF G.nodes # <<>> THEN Rat(Cardinality(EdgeSet(G)), Len(G.nodes)) ELSE <<0, 1>>

\* sum(...) / len(self.graph.nodes) if self.graph.nodes else 0
avg_degree(G) ==
    IF G.nodes # <<>> THEN Rat(degree_sum(G, Len(G.nodes)), Len(G.nodes)) ELSE <<0, 1>>

\* successors and predecessors of the nodes of S
neighbours(G, S) ==
    {e[2] : e \in {f \in EdgeSet(G) : f[1] \in S}}
        \cup {e[1] : e \in {f \in EdgeSet(G) : f[2] \in S}}

\* the breadth-first search of nx.weakly_connected_components from the nodes S
RECURSIVE plain_bfs(_, _)
plain_bfs(G, S) ==
    LET next == S \cup neighbours(G, S) IN
    IF next = S THEN S ELSE plain_bfs(G, next)

\* nx.number_weakly_connected_components: one search from every node, in graph
\* order, that no earlier search has reached
RECURSIVE count_components(_, _, _)
count_components(G, k, reached) ==
    IF k > Len(G.nodes) THEN 0
    ELSE IF G.nodes[k] \in reached THEN count_components(G, k + 1, reached)
    ELSE 1 + count_components(G, k + 1, reached \cup plain_bfs(G, {G.nodes[k]}))

number_weakly_connected_components(G) == count_components(G, 1, {})

\* _count_entity_types: nodes per label
count_entity_types(G) ==
    [l \in {G.data[n].label : n \in NodeSet(G)} |->
        Cardinality({n \in NodeSet(G) : G.data[n].label = l})]

\* variant: the list is cut one entry short
get_top_entities_short(G, n) ==
    LET s == sorted_nodes(G) IN
    [i \in 1..Min(n - 1, Len(s)) |-> <<G.data[s[i]].text, degree_centrality(G, s[i])>>]

\* [(text, score) for node, score in sorted_entities[:n]], n >= 0
get_top_entities(G, n) ==
    LET s == sorted_nodes(G) IN
    [i \in 1..Min(n, Len(s)) |-> <<G.data[s[i]].text, degree_centrality(G, s[i])>>]

TopK == 10
DefaultSample == 100

statistics(G) ==
    [nodes |-> Len(G.nodes),
     edges |-> Cardinality(EdgeSet(G)),
     density |-> density(G),
     avg_degree |-> avg_degree(G),
     connected_components |-> number_weakly_connected_components(G),
     entity_types |-> count_entity_types(G),
     top_entities |-> get_top_entities(G, TopK)]

----------------------------------------------------------------------------
(* save_graph: the three files it writes, one after the other              *)

Exports == <<"pickle", "graphml", "stats">>
Outputs == Range(Exports) \cup {"html"}
Absent == [state |-> "absent"]
Partial == [state |-> "partial"]
Complete(content) == [state |-> "complete", content |-> content]

\* what a finished write has put at the path
export_content(f, G) ==
    CASE f = "pickle" -> G
      [] f = "graphml" -> prepare_graph_for_graphml(G)
      [] f = "stats" -> statistics(G)

----------------------------------------------------------------------------
(* visualize                                                               *)

\* variant: the sample is taken when the graph has at least n nodes, one short
visualize_samples_short(G, n) ==
    IF Len(G.nodes) >= n /\ n > 0
    THEN LET keep == Range(nodes_to_keep(G, n - 1)) IN
         {subgraph_copy(G, keep, order) : order \in subgraph_orders(G, keep)}
    ELSE {G}

\* the graph handed to net.from_nx: the subgraph view of the top max_nodes nodes
\* when the graph is larger, in one of the view's iteration orders, else the
\* graph itself
visualize_samples(G, n) ==
    IF Len(G.nodes) > n
    THEN LET keep == Range(nodes_to_keep(G, n)) IN
         {subgraph_copy(G, keep, order) : order \in subgraph_orders(G, keep)}
    ELSE {G}

----------------------------------------------------------------------------
(* History of add_entity calls, kept beside the graph                      *)

Call(entity, doc_id) == [entity |-> entity, doc_id |-> doc_id]

hist_add(G, H, entity, doc_id) ==
    LET id == node_id(entity) IN
    IF id \notin NodeSet(G)
    THEN [created |-> Append(H.created, id),
          seen |-> H.seen @@ (id :> <<Call(entity, doc_id)>>)]
    ELSE [H EXCEPT !.seen[id] = Append(@, Call(entity, doc_id))]

RECURSIVE hist_entities(_, _, _, _, _)
hist_entities(G, H, entities, doc_id, threshold) ==
    IF entities = <<>> THEN H
    ELSE IF above_threshold(Head(entities), threshold)
         THEN hist_entities(add_entity(G, Head(entities), doc_id),
                            hist_add(G, H, Head(entities), doc_id),
                            Tail(entities), doc_id, threshold)
         ELSE hist_entities(G, H, Tail(entities), doc_id, threshold)

hist_prune(H, G) ==
    [created |-> SelectSeq(H.created, LAMBDA n : n \in NodeSet(G)),
     seen |-> Restrict(H.seen, NodeSet(G))]

Hist == [created |-> created, seen |-> seen]

----------------------------------------------------------------------------
(* Bounds and input domains                                                *)

\* add_entity calls, entity store alone
MaxMerges == 3
\* sum of the node counts of the graph
MaxCount == 3
\* sum of the edge counts of the graph
MaxEdgeCount == 2
\* entities of one extraction file
MaxDocLen == 2
\* largest max_nodes configured
MaxBudget == 2

Ent(t, l, c) == [text |-> t, label |-> l, confidence |-> c]

DefaultMinConfidence == <<3, 10>>
DefaultMaxNodes == 1000

SeqsUpTo(S, n) == UNION {[1..k -> S] : k \in 0..n}

RECURSIVE SumOver(_, _)
SumOver(f, S) ==
    IF S = {} THEN 0
    ELSE LET x == CHOOSE y \in S : TRUE IN f[x].count + SumOver(f, S \ {x})

TotalCount(G) == SumOver(G.data, NodeSet(G))
TotalEdgeCount(G) == SumOver(G.edges, EdgeSet(G))

Limit(count, edges) == [count |-> count, edges |-> edges]

WithinBounds(G, limit) ==
    TotalCount(G) <= limit.count /\ TotalEdgeCount(G) <= limit.edges

----------------------------------------------------------------------------
(* Operations                                                              *)

\* a direct call builder.add_entity(entity, doc_id)
AddEntity(E, D, limit) ==
    /\ pc = "idle"
    /\ \E entity \in E, doc_id \in D :
        IF add_entity_raises(entity)
        THEN /\ last' = [op |-> "add_entity_raised", entity |-> entity]
             /\ UNCHANGED <<graph, created, seen>>
        ELSE /\ graph' = add_entity(graph, entity, doc_id)
             /\ created' = hist_add(graph, Hist, entity, doc_id).created
             /\ seen' = hist_add(graph, Hist, entity, doc_id).seen
             /\ last' = [op |-> "add_entity"]
    /\ WithinBounds(graph', limit)
    /\ UNCHANGED <<disk, min_confidence, max_nodes, frames, serialized, ingester, pc>>

\* a direct call builder.add_relationship(source, target, rel_type, weight)
AddRelationship(T, R, W, limit) ==
    /\ pc = "idle"
    /\ \E source \in T, target \in T, rel_type \in R, weight \in W :
        /\ graph' = add_relationship(graph, source, target, rel_type, weight)
        /\ last' = [op |-> "add_relationship", source |-> source,
                    target |-> target, rel_type |-> rel_type, weight |-> weight]
    /\ WithinBounds(graph', limit)
    /\ UNCHANGED <<disk, min_confidence, max_nodes, frames, serialized, ingester, pc, created, seen>>

\* build_from_extractions(extraction_files) is called
BuildStart ==
    /\ pc = "idle"
    /\ pc' = "files"
    /\ last' = [op |-> "build_start"]
    /\ UNCHANGED <<graph, disk, min_confidence, max_nodes, frames, serialized, ingester, created, seen>>

\* one turn of the loop over extraction_files: json.load gives data
BuildFile(Docs, limit, record) ==
    /\ pc = "files"
    /\ \E data \in Docs :
        IF file_raises(data, min_confidence)
        THEN /\ graph' = ingest_until_error(graph, data, min_confidence)
             /\ WithinBounds(graph', limit)
             /\ LET H == hist_entities(graph, Hist,
                                       entities_before_error(data, min_confidence),
                                       IF unreadable(data) THEN None ELSE data.doc_id,
                                       min_confidence)
                IN created' = H.created /\ seen' = H.seen
             /\ last' = [op |-> "build_raised", data |-> data, before |-> graph]
             /\ pc' = "idle"
        ELSE /\ TotalCount(graph) + Len(entity_texts(data.entities, min_confidence))
                    <= limit.count
             /\ graph' = ingest_file(graph, data, min_confidence)
             /\ TotalEdgeCount(graph') <= limit.edges
             /\ LET H == hist_entities(graph, Hist, data.entities, data.doc_id,
                                       min_confidence)
                IN created' = H.created /\ seen' = H.seen
             /\ last' = IF record
                        THEN [op |-> "build_file", data |-> data, before |-> graph]
                        ELSE [op |-> "build_file"]
             /\ pc' = pc
    /\ UNCHANGED <<disk, min_confidence, max_nodes, frames, serialized, ingester>>

\* the loop is over: if len(self.graph.nodes) > self.max_nodes: self._prune_graph()
BuildPrune ==
    /\ pc = "files"
    /\ \E G \in prune_if_needed(graph, max_nodes) :
           /\ graph' = G
           /\ created' = hist_prune(Hist, G).created
           /\ seen' = hist_prune(Hist, G).seen
    /\ last' = [op |-> "build_done", before |-> graph, created |-> created]
    /\ pc' = "idle"
    /\ UNCHANGED <<disk, min_confidence, max_nodes, frames, serialized, ingester>>

open_pc(f) == "open_" \o f
write_pc(f) == "write_" \o f

\* save_graph(filename) is called
SaveStart ==
    /\ pc = "idle"
    /\ pc' = open_pc(Exports[1])
    /\ last' = [op |-> "save_start"]
    /\ UNCHANGED <<graph, disk, min_confidence, max_nodes, frames, serialized, ingester, created, seen>>

\* open(path, 'w') and the open inside nx.write_graphml: the file at the final
\* path is created or truncated
SaveOpen ==
    /\ \E i \in DOMAIN Exports :
        /\ pc = open_pc(Exports[i])
        /\ disk' = [disk EXCEPT ![Exports[i]] = Partial]
        /\ pc' = write_pc(Exports[i])
        /\ last' = [op |-> "save_open", file |-> Exports[i]]
    /\ UNCHANGED <<graph, min_confidence, max_nodes, frames, serialized, ingester, created, seen>>

\* the dump returns and the file is closed; save_graph goes on to the next file
SaveWrite ==
    /\ \E i \in DOMAIN Exports :
        /\ pc = write_pc(Exports[i])
        /\ disk' = [disk EXCEPT ![Exports[i]] = Complete(export_content(Exports[i], graph))]
        /\ pc' = IF i < Len(Exports) THEN open_pc(Exports[i + 1]) ELSE "idle"
        /\ last' = [op |-> "save_write", file |-> Exports[i]]
    /\ UNCHANGED <<graph, min_confidence, max_nodes, frames, serialized, ingester, created, seen>>

\* the open or the dump raises OSError: save_graph has no handler, the exception
\* reaches the caller and the files stay as they are
SaveFail ==
    /\ \E i \in DOMAIN Exports :
        /\ pc \in {open_pc(Exports[i]), write_pc(Exports[i])}
        /\ last' = [op |-> "save_raised", file |-> Exports[i]]
    /\ pc' = "idle"
    /\ UNCHANGED <<graph, disk, min_confidence, max_nodes, frames, serialized, ingester, created, seen>>

\* a call self._get_top_entities(n)
GetTopEntities(Ks) ==
    /\ pc = "idle"
    /\ \E n \in Ks :
        last' = [op |-> "get_top_entities", n |-> n,
                 result |-> get_top_entities(graph, n)]
    /\ UNCHANGED <<graph, disk, min_confidence, max_nodes, frames, serialized, ingester, pc, created, seen>>

\* a call builder.visualize(output_file, max_nodes = n): the page is made from
\* the sample
Visualize(Ns) ==
    /\ pc = "idle"
    /\ \E n \in Ns : \E sample \in visualize_samples(graph, n) :
        /\ disk' = [disk EXCEPT !["html"] = Complete(sample)]
        /\ last' = [op |-> "visualize", n |-> n, before |-> graph]
    /\ UNCHANGED <<graph, min_confidence, max_nodes, frames, serialized, ingester, pc, created, seen>>

InitBuilder(Budgets, Disciplines) ==
    /\ graph = EmptyGraph
    /\ min_confidence = DefaultMinConfidence
    /\ max_nodes \in Budgets
    /\ pc = "idle"
    /\ disk = [f \in Outputs |-> Absent]
    /\ created = <<>>
    /\ seen = <<>>
    /\ last = [op |-> "init"]
    /\ frames = <<>>
    /\ serialized \in Disciplines

\* no fetch_articles call is made
NoFetch == [status |-> "none"]

InitState(Budgets, Disciplines) ==
    /\ InitBuilder(Budgets, Disciplines)
    /\ ingester = NoFetch

\* the callers of the repository make one call at a time
InitWith(Budgets) == InitState(Budgets, {TRUE})

----------------------------------------------------------------------------
(* Entity store alone: add_entity calls whose texts and labels may contain *)
(* the separator of the node id                                            *)

SepTexts == {<<"a">>, <<"a", "_", "b">>}
SepLabels == {<<"X">>, <<"b", "_", "X">>}
MergeConfidences == {<<3, 5>>, <<4, 5>>}
DocIds == {"d1", "d2"}
SepEntities == {Ent(t, l, c) : t \in SepTexts, l \in SepLabels, c \in MergeConfidences}

InitEntity == InitWith({DefaultMaxNodes})
AddEntityCall == AddEntity(SepEntities, DocIds \cup {None}, Limit(MaxMerges, 0))
NextEntity == AddEntityCall
SpecEntity == InitEntity /\ [][NextEntity]_vars

RECURSIVE SumConfidence(_)
SumConfidence(calls) ==
    IF calls = <<>> THEN <<0, 1>>
    ELSE RatAdd(Head(calls).entity.confidence, SumConfidence(Tail(calls)))

\* C2: every node's count is the number of add_entity calls made for its key
\* (the node id add_entity computes), and its confidence times its count is the
\* exact sum of the confidences of those calls, whatever their order.
C2_RunningMean ==
    \A k \in NodeSet(graph) :
        /\ graph.data[k].count = Len(seen[k])
        /\ RatMulInt(graph.data[k].confidence, graph.data[k].count)
               = SumConfidence(seen[k])

\* 0.6 then 0.8 for one key: count 2, confidence 0.7
C2_Witness ==
    \E k \in NodeSet(graph) :
        /\ Len(seen[k]) = 2
        /\ seen[k][1].entity.confidence = <<3, 5>>
        /\ seen[k][2].entity.confidence = <<4, 5>>
        /\ graph.data[k].count = 2
        /\ graph.data[k].confidence = <<7, 10>>

CallsOf(k) == {seen[k][i] : i \in 1..Len(seen[k])}

\* C6: two add_entity calls update the same node if and only if their entities
\* have equal text and equal label.
C6_IdentityIsPair ==
    \A k1, k2 \in NodeSet(graph) :
        \A c1 \in CallsOf(k1), c2 \in CallsOf(k2) :
            (k1 = k2) <=> (/\ c1.entity.text = c2.entity.text
                           /\ c1.entity.label = c2.entity.label)

FirstCall(k, d) ==
    CHOOSE i \in 1..Len(seen[k]) :
        /\ seen[k][i].doc_id = d
        /\ \A j \in 1..(i - 1) : seen[k][j].doc_id # d

----------------------------------------------------------------------------
(* The builder's whole interface: direct calls and builds, on entities     *)
(* that share texts across labels                                          *)

Texts == {<<"a">>, <<"b">>}
Labels == {<<"X">>, <<"Y">>}
Entities == {Ent(t, l, <<4, 5>>) : t \in Texts, l \in Labels}
RelatedTo == <<"R", "T">>
One == <<1, 1>>
Docs == {[doc_id |-> "d1", entities |-> es] : es \in SeqsUpTo(Entities, MaxDocLen)}

Init == InitWith(0..MaxBudget)
SpecLimit == Limit(MaxCount, MaxEdgeCount)
AddEntityDirect == AddEntity(Entities, {"d1"}, SpecLimit)
AddRelationshipDirect == AddRelationship(Texts, {RelatedTo}, {One}, SpecLimit)
BuildFileAny == BuildFile(Docs, SpecLimit, FALSE)
Next == AddEntityDirect \/ AddRelationshipDirect \/ BuildStart \/ BuildFileAny \/ BuildPrune
Spec == Init /\ [][Next]_vars

Pruned == last.op = "build_done" /\ Len(last.before.nodes) > max_nodes

\* C1: after the pruning step of build_from_extractions the graph has at most
\* max_nodes nodes and every edge has its source and its target among them.
C1_BudgetAndClosure ==
    last.op = "build_done" =>
        /\ Cardinality(NodeSet(graph)) <= max_nodes
        /\ \A e \in EdgeSet(graph) : e[1] \in NodeSet(graph) /\ e[2] \in NodeSet(graph)

\* a prune that removed a node and an edge and left as many nodes as the budget
C1_Witness ==
    /\ Pruned
    /\ max_nodes > 0
    /\ Cardinality(NodeSet(graph)) = max_nodes
    /\ EdgeSet(graph) # EdgeSet(last.before)

\* degree centrality as the design states it
ClaimedCentrality(G, n) ==
    IF Len(G.nodes) <= 1 THEN <<0, 1>> ELSE Rat(Degree(G, n), Len(G.nodes) - 1)

\* k comes before d: higher centrality, or equal centrality and inserted earlier
RankedBefore(G, k, d) ==
    \/ RatLess(ClaimedCentrality(G, d), ClaimedCentrality(G, k))
    \/ /\ ClaimedCentrality(G, d) = ClaimedCentrality(G, k)
       /\ IndexOf(k, G.nodes) < IndexOf(d, G.nodes)

\* C4: when the Pruner runs on more than max_nodes nodes, the retained nodes are
\* the first max_nodes of the order "centrality descending, ties by ascending
\* position in the insertion order of the graph being pruned"; the retained set
\* is therefore a function of that graph.
C4_TopByCentrality ==
    Pruned =>
        /\ Cardinality(NodeSet(graph)) = max_nodes
        /\ NodeSet(graph) \subseteq NodeSet(last.before)
        /\ \A k \in NodeSet(graph), d \in NodeSet(last.before) \ NodeSet(graph) :
               RankedBefore(last.before, k, d)

\* a prune decided by a tie (a kept and a dropped node of equal centrality) and
\* by centrality against the insertion order (a kept node inserted after a
\* dropped one)
C4_Witness ==
    /\ Pruned
    /\ \E k \in NodeSet(graph), d \in NodeSet(last.before) \ NodeSet(graph) :
           ClaimedCentrality(last.before, k) = ClaimedCentrality(last.before, d)
    /\ \E k \in NodeSet(graph), d \in NodeSet(last.before) \ NodeSet(graph) :
           IndexOf(d, last.before.nodes) < IndexOf(k, last.before.nodes)

\* C5: no edge has the same node as source and target.
C5_NoSelfLoop == \A e \in EdgeSet(graph) : e[1] # e[2]

\* the effect of a resolved add_relationship on the edge s -> t and on the rest
RelationshipEffect(G, G2, s, t, rel_type, weight) ==
    LET e == <<s, t>> IN
    /\ EdgeSet(G2) = EdgeSet(G) \cup {e}
    /\ IF e \in EdgeSet(G)
       THEN /\ G2.edges[e].weight = RatAdd(G.edges[e].weight, weight)
            /\ G2.edges[e].count = G.edges[e].count + 1
            /\ G2.edges[e].type = G.edges[e].type
       ELSE G2.edges[e] = [type |-> rel_type, weight |-> weight, count |-> 1]
    /\ \A f \in EdgeSet(G) \ {e} : G2.edges[f] = G.edges[f]
    /\ G2.nodes = G.nodes
    /\ G2.data = G.data

Matches(G, text) == {n \in NodeSet(G) : G.data[n].text = text}

\* C8: an add_relationship whose texts both match accumulates weight and count
\* on the existing edge s -> t (type as first recorded) or creates it with the
\* given type, weight and count 1; nothing else in the graph changes.
C8_EdgeUpdate ==
    [][(/\ last'.op = "add_relationship"
        /\ Matches(graph, last'.source) # {}
        /\ Matches(graph, last'.target) # {})
       => \E s \in Matches(graph, last'.source), t \in Matches(graph, last'.target) :
              RelationshipEffect(graph, graph', s, t, last'.rel_type, last'.weight)]_vars

\* a direct call updated an edge that co-occurrence linking had created
C8_Witness ==
    /\ last.op = "add_relationship"
    /\ \E e \in EdgeSet(graph) :
           /\ e[1] # e[2]
           /\ graph.data[e[1]].text = last.source
           /\ graph.data[e[2]].text = last.target
           /\ graph.edges[e] = [type |-> CoOccurs, weight |-> <<3, 2>>, count |-> 2]

\* C15: when the graph has at most max_nodes nodes at the end of ingestion, the
\* pruning step changes nothing: nodes, their order, edges and every attribute
\* are as before.
C15_PruneNoOp ==
    (last.op = "build_done" /\ Len(last.before.nodes) <= max_nodes)
        => graph = last.before

\* a build that ended with exactly max_nodes nodes, joined by an edge
C15_Witness ==
    /\ last.op = "build_done"
    /\ max_nodes > 0
    /\ Len(last.before.nodes) = max_nodes
    /\ EdgeSet(graph) # {}
    /\ graph = last.before

\* C14: add_relationship creates no node and changes no node attribute; when the
\* source text or the target text matches no node it leaves the whole graph
\* unchanged; every edge joins two nodes of the graph.
C14_NoNodeCreated ==
    [][/\ \A e \in EdgeSet(graph') : e[1] \in NodeSet(graph') /\ e[2] \in NodeSet(graph')
       /\ last'.op = "add_relationship" =>
              /\ graph'.nodes = graph.nodes
              /\ graph'.data = graph.data
              /\ EdgeSet(graph') \ EdgeSet(graph) \subseteq NodeSet(graph) \X NodeSet(graph)
              /\ (Matches(graph, last'.source) = {} \/ Matches(graph, last'.target) = {})
                     => graph' = graph]_vars

\* a call whose source matched a node and whose target matched none, on a graph
\* that has an edge
C14_Witness ==
    /\ last.op = "add_relationship"
    /\ Matches(graph, last.source) # {}
    /\ Matches(graph, last.target) = {}
    /\ EdgeSet(graph) # {}

----------------------------------------------------------------------------
(* A builder that is pruned to a small budget and then used again          *)

\* nodes the graph may hold before a build prunes it
MaxReingestCount == 5
\* max_nodes of this builder
ReingestBudget == 2

ReEntities ==
    {Ent(<<"a">>, l, <<4, 5>>) : l \in {<<"X">>, <<"Y">>}}
        \cup {Ent(<<"b">>, l, <<4, 5>>) : l \in {<<"X">>, <<"Y">>, <<"Z">>}}
ReDocs == {[doc_id |-> "d1", entities |-> es] : es \in SeqsUpTo(ReEntities, MaxDocLen)}

InitReingest == InitWith({ReingestBudget})
ReLimit == Limit(MaxReingestCount, MaxEdgeCount)
AddEntityRe == AddEntity(ReEntities, {"d1"}, ReLimit)
AddRelationshipRe == AddRelationship(Texts, {RelatedTo}, {One}, ReLimit)
BuildFileRe == BuildFile(ReDocs, ReLimit, FALSE)
NextReingest == AddEntityRe \/ AddRelationshipRe \/ BuildStart \/ BuildFileRe \/ BuildPrune
SpecReingest == InitReingest /\ [][NextReingest]_vars

\* the live node with this text that add_entity created first
FirstCreated(text) ==
    created[CHOOSE i \in 1..Len(created) :
                /\ graph.data[created[i]].text = text
                /\ \A j \in 1..(i - 1) : graph.data[created[j]].text # text]

\* C7: the endpoints add_relationship uses are, for each text, the matching node
\* that was created first, also in a graph that was pruned before.
C7_FirstCreatedEndpoint ==
    [][(/\ last'.op = "add_relationship"
        /\ Matches(graph, last'.source) # {}
        /\ Matches(graph, last'.target) # {})
       => RelationshipEffect(graph, graph', FirstCreated(last'.source),
                             FirstCreated(last'.target), last'.rel_type,
                             last'.weight)]_vars

----------------------------------------------------------------------------
(* One extraction file ingested into the empty graph: entities of pairwise *)
(* distinct texts at the threshold, with entities below it among them      *)

\* entities of one file
MaxWindowLen == 6
\* entities below the threshold in one file
MaxBelow == 1

WTexts == {<<"a">>, <<"b">>, <<"c">>, <<"d">>, <<"e">>, <<"f">>}
Kept(t) == Ent(t, <<"X">>, DefaultMinConfidence)
Below(t) == Ent(t, <<"X">>, <<1, 5>>)

InsertAt(s, i, x) == SubSeq(s, 1, i) \o <<x>> \o SubSeq(s, i + 1, Len(s))

RECURSIVE WithBelow(_, _)
WithBelow(S, n) ==
    IF n = 0 THEN S
    ELSE S \cup WithBelow(UNION {{InsertAt(s, i, Below(t)) :
                                     i \in 0..Len(s), t \in WTexts} :
                                 s \in {r \in S : Len(r) < MaxWindowLen}}, n - 1)

\* the sequences of at most n pairwise distinct elements of S
RECURSIVE DistinctSeqs(_, _)
DistinctSeqs(S, n) ==
    IF n = 0 THEN {<<>>}
    ELSE LET P == DistinctSeqs(S, n - 1) IN
         P \cup UNION {{Append(s, x) : x \in S \ Range(s)} : s \in P}

KeptLists == {[i \in DOMAIN s |-> Kept(s[i])] : s \in DistinctSeqs(WTexts, MaxWindowLen)}

\* the files whose above-threshold entities are the list es
WindowDocs(es) == {[doc_id |-> "d1", entities |-> l] : l \in WithBelow({es}, MaxBelow)}

InitWindow == InitWith({DefaultMaxNodes})
BuildFileWindow ==
    /\ graph = EmptyGraph
    /\ \E es \in KeptLists :
           BuildFile(WindowDocs(es), Limit(MaxWindowLen, MaxWindowLen * Window), TRUE)
NextWindow == BuildStart \/ BuildFileWindow \/ BuildPrune
SpecWindow == InitWindow /\ [][NextWindow]_vars

\* the entities of a file whose confidence is not below the threshold, in order
KeptEntities(data) ==
    SelectSeq(data.entities, LAMBDA e : ~RatLess(e.confidence, min_confidence))

NodeOf(text) == CHOOSE n \in NodeSet(graph) : graph.data[n].text = text

\* C3: a file whose above-threshold entities e_1..e_n have pairwise distinct
\* texts, each the text of a node, ingested into the empty graph, yields exactly
\* the edges e_i -> e_j with 1 <= j - i <= 4, each CO_OCCURS, weight 0.5, count 1.
C3_WindowEdges ==
    (/\ last.op = "build_file"
     /\ last.before = EmptyGraph
     /\ Injective([i \in DOMAIN KeptEntities(last.data) |-> KeptEntities(last.data)[i].text])
     /\ \A i \in DOMAIN KeptEntities(last.data) :
            Matches(graph, KeptEntities(last.data)[i].text) # {})
    => LET e == KeptEntities(last.data) IN
       /\ EdgeSet(graph) =
              {<<NodeOf(e[p[1]].text), NodeOf(e[p[2]].text)>> :
                  p \in {q \in (DOMAIN e) \X (DOMAIN e) :
                            1 <= q[2] - q[1] /\ q[2] - q[1] <= 4}}
       /\ \A x \in EdgeSet(graph) :
              graph.edges[x] = [type |-> CoOccurs, weight |-> <<1, 2>>, count |-> 1]

\* six entities at the threshold: fourteen edges, none from the first to the sixth
C3_Witness ==
    /\ last.op = "build_file"
    /\ Len(KeptEntities(last.data)) = 6
    /\ Cardinality(EdgeSet(graph)) = 14
    /\ <<NodeOf(last.data.entities[1].text), NodeOf(last.data.entities[6].text)>>
           \notin EdgeSet(graph)

\* C9: an occurrence below min_confidence has no effect: the graph after a file
\* is the graph after the file without those occurrences, the node counts grow by
\* the number of kept occurrences, and an occurrence at exactly min_confidence is
\* kept.
C9_BelowThresholdIgnored ==
    last.op = "build_file" =>
        /\ graph = ingest_file(last.before,
                               [last.data EXCEPT !.entities = KeptEntities(last.data)],
                               min_confidence)
        /\ TotalCount(graph) = TotalCount(last.before) + Len(KeptEntities(last.data))
        /\ \A i \in DOMAIN last.data.entities :
               last.data.entities[i].confidence = min_confidence
                   => node_id(last.data.entities[i]) \in NodeSet(graph)

\* the second of six entities is below the threshold and takes no position:
\* the first is linked to the sixth, four kept entities further
C9_Witness ==
    /\ last.op = "build_file"
    /\ Len(last.data.entities) = 6
    /\ RatLess(last.data.entities[2].confidence, min_confidence)
    /\ last.data.entities[1].confidence = min_confidence
    /\ Cardinality(NodeSet(graph)) = 5
    /\ <<node_id(last.data.entities[1]), node_id(last.data.entities[6])>>
           \in EdgeSet(graph)

----------------------------------------------------------------------------
(* Malformed input: entity records with an absent key or a confidence      *)
(* outside [0, 1], and extraction files that cannot be read                *)

\* add_entity calls and kept occurrences explored
MaxValidateCount == 3
\* entities in one extraction file
MaxValidateDocLen == 2

TooHigh == <<3, 2>>
Negative == <<-1, 5>>
ValidEntities == {Ent(t, <<"X">>, <<4, 5>>) : t \in Texts}
MalformedEntities ==
    {[label |-> <<"X">>, confidence |-> <<4, 5>>],
     [text |-> <<"a">>, confidence |-> <<4, 5>>],
     Ent(<<"a">>, <<"X">>, TooHigh), Ent(<<"b">>, <<"X">>, Negative)}
ValidateDocs ==
    {[doc_id |-> "d1", entities |-> es] :
        es \in SeqsUpTo(ValidEntities \cup MalformedEntities, MaxValidateDocLen)}
        \cup {Unreadable}

InitValidate == InitWith({DefaultMaxNodes})
ValidateLimit == Limit(MaxValidateCount, MaxValidateCount)
AddEntityValidate ==
    AddEntity(ValidEntities \cup MalformedEntities, {"d1"}, ValidateLimit)
BuildFileValidate == BuildFile(ValidateDocs, ValidateLimit, TRUE)
NextValidate == AddEntityValidate \/ BuildStart \/ BuildFileValidate \/ BuildPrune
SpecValidate == InitValidate /\ [][NextValidate]_vars

\* the entity records the design accepts
in_unit_interval(c) == RatGeq(c, <<0, 1>>) /\ RatGeq(<<1, 1>>, c)
well_formed(entity) ==
    /\ {"text", "label"} \subseteq DOMAIN entity
    /\ in_unit_interval(get_confidence(entity))

\* C11: add_entity rejects every entity whose text or label is missing or whose
\* confidence lies outside [0, 1] and leaves the nodes as they were: no call with
\* such an entity has created or updated a node.
C11_RejectsMalformed ==
    \A k \in NodeSet(graph) : \A c \in CallsOf(k) : well_formed(c.entity)

well_formed_entities(entities) == SelectSeq(entities, well_formed)

\* a step of the loop of build_from_extractions that read a parseable file
ReadsFile ==
    /\ pc = "files"
    /\ last'.op \in {"build_file", "build_raised"}
    /\ ~unreadable(last'.data)

\* C12: a malformed entity record is skipped alone: the file has the effect of
\* the file without its malformed records (every other kept entity added and
\* linked) and the loop goes on to the later files.
C12_MalformedEntitySkipped ==
    [][ReadsFile =>
           /\ graph' = ingest_file(graph,
                                   [last'.data EXCEPT
                                       !.entities = well_formed_entities(@)],
                                   min_confidence)
           /\ pc' = "files"]_vars

\* a step of the loop that met a file it could not open or parse
ReadsUnreadable ==
    /\ pc = "files"
    /\ last'.op \in {"build_file", "build_raised"}
    /\ unreadable(last'.data)

\* C13: an unreadable or unparseable file is skipped whole (no node, no edge)
\* and the run goes on with the remaining files, to the prune check and the
\* return of the graph.
C13_UnreadableSkipped ==
    [][ReadsUnreadable => graph' = graph /\ pc' = "files"]_vars

----------------------------------------------------------------------------
(* Export of a graph built by direct calls                                 *)

\* add_entity calls explored before and between exports
MaxExportCount == 3
\* add_relationship calls explored
MaxExportEdges == 2

ExportTexts == {<<"a">>, <<"b">>, <<"c">>}
ExportEntities == {Ent(t, <<"X">>, <<4, 5>>) : t \in ExportTexts}
InitExport == InitWith({DefaultMaxNodes})
ExportLimit == Limit(MaxExportCount, MaxExportEdges)
AddEntityExport == AddEntity(ExportEntities, DocIds, ExportLimit)
AddRelationshipExport == AddRelationship(ExportTexts, {RelatedTo}, {One}, ExportLimit)
\* the exports explored are those into an empty output directory
SaveStartFresh == (\A f \in Range(Exports) : disk[f] = Absent) /\ SaveStart
NextExport ==
    \/ AddEntityExport \/ AddRelationshipExport
    \/ SaveStartFresh \/ SaveOpen \/ SaveWrite \/ SaveFail
SpecExport == InitExport /\ [][NextExport]_vars

\* C16: the outputs of save_graph appear at their final paths complete and
\* together: no file is ever visible half written, and never only a part of the
\* set of outputs.
C16_AtomicPublish ==
    /\ \A f \in Range(Exports) : disk[f].state # "partial"
    /\ {f \in Range(Exports) : disk[f].state = "complete"} \in {{}, Range(Exports)}

\* v is a text in brackets whose items, read back, are those of the list l
Punctuation == {"[", "]", "'", ",", " "}
FlatOf(v, l) ==
    /\ Len(v) >= 2
    /\ v[1] = "[" /\ v[Len(v)] = "]"
    /\ SelectSeq(v, LAMBDA x : x \notin Punctuation) = l

\* C17: the graph written as GraphML has the nodes and edges of the builder's
\* graph; every scalar attribute keeps its value; sources is one string made
\* from the list, not the list; the builder's graph is unchanged.
C17_FlatInterchange ==
    [][(last'.op = "save_write" /\ last'.file = "graphml") =>
          LET C == disk'.graphml.content IN
          /\ graph' = graph
          /\ C.nodes = graph.nodes
          /\ DOMAIN C.data = NodeSet(graph)
          /\ DOMAIN C.edges = EdgeSet(graph)
          /\ \A e \in EdgeSet(graph) : C.edges[e] = graph.edges[e]
          /\ \A n \in NodeSet(graph) :
                 /\ DOMAIN C.data[n] = DOMAIN graph.data[n]
                 /\ \A key \in DOMAIN graph.data[n] \ {"sources"} :
                        C.data[n][key] = graph.data[n][key]
                 /\ FlatOf(C.data[n].sources, graph.data[n].sources)
                 /\ C.data[n].sources # graph.data[n].sources]_vars

\* a GraphML file of a graph with an edge and a node seen in two documents
C17_Witness ==
    /\ last.op = "save_write"
    /\ last.file = "graphml"
    /\ EdgeSet(graph) # {}
    /\ \E n \in NodeSet(graph) :
           /\ graph.data[n].sources = <<"d1", "d2">>
           /\ disk.graphml.content.data[n].sources
                  = <<"[", "'", "d1", "'", ",", " ", "'", "d2", "'", "]">>

\* a group of nodes that no edge leaves or enters
Closed(G, S) == \A e \in EdgeSet(G) : e[1] \in S <=> e[2] \in S

\* the maximal groups of nodes connected when edges are read as undirected: the
\* smallest non-empty closed groups
WeakComponents(G) ==
    {S \in SUBSET NodeSet(G) \ {{}} :
        /\ Closed(G, S)
        /\ \A T \in SUBSET S \ {{}, S} : ~Closed(G, T)}

\* C18: the statistics report nodes = N, edges = E, density E/(N(N-1)) when
\* N > 1 and 0 otherwise, average degree (sum of in- and out-degrees)/N when
\* N > 0 and 0 otherwise, and the number of weakly connected components.
C18_Statistics ==
    (last.op = "save_write" /\ last.file = "stats") =>
        LET stats == disk.stats.content
            N == Cardinality(NodeSet(graph))
            E == Cardinality(EdgeSet(graph))
        IN /\ stats.nodes = N
           /\ stats.edges = E
           /\ stats.density = IF N > 1 THEN Rat(E, N * (N - 1)) ELSE <<0, 1>>
           /\ stats.avg_degree = IF N > 0 THEN Rat(2 * E, N) ELSE <<0, 1>>
           /\ stats.connected_components = Cardinality(WeakComponents(graph))

\* the path a -> b -> c: density 2/6, average degree 4/3, one component
C18_Witness ==
    /\ last.op = "save_write"
    /\ last.file = "stats"
    /\ Len(graph.nodes) = 3
    /\ \E x, y, z \in NodeSet(graph) :
           x # z /\ EdgeSet(graph) = {<<x, y>>, <<y, z>>} /\ x # y /\ y # z
    /\ disk.stats.content.density = <<1, 3>>
    /\ disk.stats.content.avg_degree = <<4, 3>>
    /\ disk.stats.content.connected_components = 1

----------------------------------------------------------------------------
(* Reports on a builder whose graph a build has pruned: a second build,    *)
(* the top entities, the visualization sample                              *)

\* add_entity calls on the nodes of one graph
MaxReportCount == 5
\* add_relationship calls on the edges of one graph
MaxReportEdges == 2
\* max_nodes of the builder
ReportBudget == 2

ReportTexts == {<<"a">>, <<"b">>, <<"c">>, <<"d">>, <<"e">>}
LinkedTexts == {<<"a">>, <<"b">>, <<"c">>}
ReportEntities == {Ent(t, <<"X">>, <<4, 5>>) : t \in ReportTexts}
ReportKs == {1, TopK}
ReportSamples == {1, DefaultSample}

InitReport == InitWith({ReportBudget})
ReportLimit == Limit(MaxReportCount, MaxReportEdges)
\* the runs explored change the graph first and write the page last
PageAbsent == disk["html"] = Absent
AddEntityReport == PageAbsent /\ AddEntity(ReportEntities, {None}, ReportLimit)
\* the relationships explored lead from c to a or b
AddRelationshipReport ==
    /\ PageAbsent
    /\ AddRelationship(LinkedTexts, {RelatedTo}, {One}, ReportLimit)
    /\ last'.source = <<"c">>
    /\ last'.target # <<"c">>
BuildStartReport == PageAbsent /\ BuildStart
BuildPruneReport == PageAbsent /\ BuildPrune
GetTopEntitiesReport == GetTopEntities(ReportKs)
VisualizeReport == Visualize(ReportSamples)
NextReport ==
    \/ AddEntityReport
    \/ AddRelationshipReport
    \/ BuildStartReport
    \/ BuildPruneReport
    \/ GetTopEntitiesReport
    \/ VisualizeReport
SpecReport == InitReport /\ [][NextReport]_vars

\* k comes before d: higher centrality, or equal centrality and created earlier
FirstCreatedBefore(G, cr, k, d) ==
    \/ RatLess(ClaimedCentrality(G, d), ClaimedCentrality(G, k))
    \/ /\ ClaimedCentrality(G, d) = ClaimedCentrality(G, k)
       /\ IndexOf(k, cr) < IndexOf(d, cr)

\* the nodes of G by centrality descending, ties first-created first
ClaimedRanking(G, cr) ==
    CHOOSE s \in Orderings(NodeSet(G)) :
        \A i, j \in 1..Len(s) : i < j => FirstCreatedBefore(G, cr, s[i], s[j])

ClaimedTop(G, cr, n) ==
    {ClaimedRanking(G, cr)[i] : i \in 1..Min(n, Len(G.nodes))}

\* C19: the top-K list of the current graph, pruned or not, has min(K, N)
\* entries, the (text, centrality score) of the first min(K, N) nodes of the
\* ranking "centrality descending, ties first-created first", in that order.
C19_TopEntities ==
    last.op = "get_top_entities" =>
        LET rank == ClaimedRanking(graph, created) IN
        /\ Len(last.result) = Min(last.n, Len(graph.nodes))
        /\ \A i \in 1..Len(last.result) :
               /\ last.result[i][1] = graph.data[rank[i]].text
               /\ Len(graph.nodes) > 1 =>
                      last.result[i][2] = ClaimedCentrality(graph, rank[i])

\* the subgraph of G induced by the node set S, whatever its node order
InducedBy(G, S, sample) ==
    /\ NodeSet(sample) = S
    /\ Len(sample.nodes) = Cardinality(S)
    /\ sample.data = Restrict(G.data, S)
    /\ sample.edges = Restrict(G.edges, {e \in EdgeSet(G) : e[1] \in S /\ e[2] \in S})

\* C20: visualize with size n draws the subgraph induced by the first n nodes of
\* the ranking "centrality descending, ties first-created first" when the graph
\* has more than n nodes, and the whole graph otherwise; the sample has at most
\* n nodes or is the whole graph, and the builder's graph is unchanged.
C20_Sample ==
    last.op = "visualize" =>
        LET sample == disk["html"].content IN
        /\ graph = last.before
        /\ IF Len(graph.nodes) > last.n
           THEN /\ InducedBy(graph, ClaimedTop(graph, created, last.n), sample)
                /\ Len(sample.nodes) <= last.n
           ELSE sample = graph

\* C4 (first-created wins): when the Pruner runs on more than max_nodes nodes,
\* the retained nodes are the first max_nodes of the order "centrality
\* descending, ties first-created first", also when the graph pruned is one
\* that an earlier prune has left.
C4_FirstCreatedWins ==
    Pruned =>
        /\ Cardinality(NodeSet(graph)) = max_nodes
        /\ NodeSet(graph) = ClaimedTop(last.before, last.created, max_nodes)

----------------------------------------------------------------------------
(* Entity store alone: add_entity calls whose texts differ by surrounding  *)
(* whitespace or by letter case                                            *)

\* add_entity calls on the nodes of one graph
MaxTrimCount == 4

TrimTexts == {<<"a">>, <<" ", "a">>, <<"a", " ">>, <<"A">>}
TrimLabels == {<<"X">>, <<"Y">>}
TrimEntities == {Ent(t, l, <<4, 5>>) : t \in TrimTexts, l \in TrimLabels}

InitTrim == InitWith({DefaultMaxNodes})
AddEntityTrim == AddEntity(TrimEntities, {"d1"}, Limit(MaxTrimCount, 0))
NextTrim == AddEntityTrim
SpecTrim == InitTrim /\ [][NextTrim]_vars

Whitespace == {" "}

RECURSIVE lstrip(_)
lstrip(t) == IF t # <<>> /\ Head(t) \in Whitespace THEN lstrip(Tail(t)) ELSE t

RECURSIVE rstrip(_)
rstrip(t) ==
    IF t # <<>> /\ t[Len(t)] \in Whitespace THEN rstrip(SubSeq(t, 1, Len(t) - 1))
    ELSE t

\* the text without leading and trailing whitespace, letter case kept
trimmed(t) == rstrip(lstrip(t))

\* C21: the node key is (trimmed text, label): the calls merged into one node
\* agree on trimmed text and label (texts differing in letter case stay apart),
\* and two nodes never share trimmed text and label (texts differing only by
\* surrounding whitespace are merged).
C21_TrimmedKey ==
    /\ \A k \in NodeSet(graph) : \A i, j \in DOMAIN seen[k] :
           /\ trimmed(seen[k][i].entity.text) = trimmed(seen[k][j].entity.text)
           /\ seen[k][i].entity.label = seen[k][j].entity.label
    /\ \A k1, k2 \in NodeSet(graph) :
           (/\ trimmed(graph.data[k1].text) = trimmed(graph.data[k2].text)
            /\ graph.data[k1].label = graph.data[k2].label) => k1 = k2

----------------------------------------------------------------------------
(* add_entity statement by statement, called by two threads on one builder *)

\* add_entity calls made directly before the threads start
MaxSetupCount == 2

Writers == {"w1", "w2"}

Frame(entity, doc_id) ==
    [at |-> "test", entity |-> entity, doc_id |-> doc_id,
     count |-> 0, old_conf |-> <<0, 1>>, count_a |-> 0, count_b |-> 0]

\* (old_conf * (node_data['count'] - 1) + new_conf) / node_data['count'], the
\* two reads of node_data['count'] taken apart
mean_of(old_conf, count_a, count_b, new_conf) ==
    RatDivInt(RatAdd(RatMulInt(old_conf, count_a - 1), new_conf), count_b)

\* self.graph.add_node(node_id, **attrs): a new node, or new attribute values
\* on a node that is there by now
add_node(G, id, attrs) ==
    [G EXCEPT !.nodes = IF id \in NodeSet(G) THEN @ ELSE Append(@, id),
              !.data = (id :> attrs) @@ @]

\* the next step of the call in frame f on graph G: the graph and the frame
\* after it
add_entity_step(G, f) ==
    LET id == node_id(f.entity) IN
    CASE f.at = "test" ->
             [graph |-> G,
              frame |-> [f EXCEPT !.at = IF id \notin NodeSet(G) THEN "add_node"
                                         ELSE "load_count"]]
      [] f.at = "add_node" ->
             [graph |-> add_node(G, id, [text |-> f.entity.text,
                                         label |-> f.entity.label,
                                         confidence |-> get_confidence(f.entity),
                                         sources |-> initial_sources(f.doc_id),
                                         count |-> 1]),
              frame |-> [f EXCEPT !.at = "done"]]
      [] f.at = "load_count" ->
             [graph |-> G,
              frame |-> [f EXCEPT !.at = "store_count", !.count = G.data[id].count]]
      [] f.at = "store_count" ->
             [graph |-> [G EXCEPT !.data[id].count = f.count + 1],
              frame |-> [f EXCEPT !.at = "sources"]]
      [] f.at = "sources" ->
             [graph |-> [G EXCEPT !.data[id].sources = merged_sources(@, f.doc_id)],
              frame |-> [f EXCEPT !.at = "load_conf"]]
      [] f.at = "load_conf" ->
             [graph |-> G,
              frame |-> [f EXCEPT !.at = "load_count_a",
                                  !.old_conf = G.data[id].confidence]]
      [] f.at = "load_count_a" ->
             [graph |-> G,
              frame |-> [f EXCEPT !.at = "load_count_b", !.count_a = G.data[id].count]]
      [] f.at = "load_count_b" ->
             [graph |-> G,
              frame |-> [f EXCEPT !.at = "store_conf", !.count_b = G.data[id].count]]
      [] f.at = "store_conf" ->
             [graph |-> [G EXCEPT !.data[id].confidence =
                            mean_of(f.old_conf, f.count_a, f.count_b,
                                    get_confidence(f.entity))],
              frame |-> [f EXCEPT !.at = "done"]]

Returned(t) == t \in DOMAIN frames /\ frames[t].at = "done"

\* variant: a thread calls while another thread's call has not returned
may_call_any_time(t) == t \notin DOMAIN frames

\* a thread makes its call; under the single-writer discipline (the loop of
\* build_from_extractions calls add_entity and waits for its return) no other
\* call is in progress
may_call(t) ==
    /\ t \notin DOMAIN frames
    /\ serialized => \A u \in DOMAIN frames : Returned(u)

\* thread t calls builder.add_entity(entity, doc_id)
AddEntityCalled(E, D) ==
    /\ pc = "idle"
    /\ \E t \in Writers, entity \in E, doc_id \in D :
        /\ may_call(t)
        /\ frames' = (t :> Frame(entity, doc_id)) @@ frames
        /\ last' = IF frames = <<>> THEN [op |-> "threads", before |-> graph]
                   ELSE last
    /\ UNCHANGED <<graph, disk, min_confidence, max_nodes, serialized, ingester, pc, created, seen>>

\* one thread's call runs its next statement
AddEntityStep ==
    /\ \E t \in DOMAIN frames :
        /\ frames[t].at # "done"
        /\ graph' = add_entity_step(graph, frames[t]).graph
        /\ frames' = [frames EXCEPT ![t] = add_entity_step(graph, frames[t]).frame]
    /\ UNCHANGED <<disk, min_confidence, max_nodes, serialized, ingester, pc, created, seen, last>>

WriterConfidences == {<<3, 5>>, <<4, 5>>}
WriterEntities == {Ent(<<"a">>, <<"X">>, c) : c \in WriterConfidences}
WriterDocs == {"d1", "d2"}

InitWriters == InitState({DefaultMaxNodes}, BOOLEAN)
\* the node is made by direct calls before the threads start
AddEntitySetup ==
    /\ frames = <<>>
    /\ AddEntity(WriterEntities, WriterDocs, Limit(MaxSetupCount, 0))
AddEntityThread == AddEntityCalled(WriterEntities, WriterDocs)
NextWriters ==
    \/ AddEntitySetup
    \/ AddEntityThread
    \/ AddEntityStep
SpecWriters == InitWriters /\ [][NextWriters]_vars

\* the graphs that the two calls give when one runs after the other
SerialResults ==
    LET c1 == frames["w1"]
        c2 == frames["w2"]
        G == last.before
    IN {add_entity(add_entity(G, c1.entity, c1.doc_id), c2.entity, c2.doc_id),
        add_entity(add_entity(G, c2.entity, c2.doc_id), c1.entity, c1.doc_id)}

BothReturned == \A t \in Writers : Returned(t)

\* C22: when the add_entity calls of the two threads are serialized, the graph
\* after both is the result of one of the two serial orders.
C22_SerializedSafe ==
    (serialized /\ BothReturned) => graph \in SerialResults

\* two interleaved calls for a key that existed before both: the count or the
\* confidence of the node is that of no serial order
C22_Witness ==
    /\ ~serialized
    /\ BothReturned
    /\ last.before # EmptyGraph
    /\ \A G \in SerialResults :
           \/ graph.data[<<"a", "_", "X">>].count # G.data[<<"a", "_", "X">>].count
           \/ graph.data[<<"a", "_", "X">>].confidence
                  # G.data[<<"a", "_", "X">>].confidence

----------------------------------------------------------------------------
(* Removal happens in the pruning step alone (checked in Spec)             *)

\* from G to G2 nothing is removed and no count goes down
Grows(G, G2) ==
    /\ NodeSet(G) \subseteq NodeSet(G2)
    /\ EdgeSet(G) \subseteq EdgeSet(G2)
    /\ \A n \in NodeSet(G) : G2.data[n].count >= G.data[n].count
    /\ \A e \in EdgeSet(G) : G2.edges[e].count >= G.edges[e].count
    /\ \A n \in NodeSet(G2) : G2.data[n].count >= 1
    /\ \A e \in EdgeSet(G2) : G2.edges[e].count >= 1

\* C23: every step other than the pruning step of build_from_extractions
\* (add_entity, add_relationship, a file with its co-occurrence linking) keeps
\* every node and edge and lowers no count, all counts being >= 1; the pruning
\* step ends its run, so it comes once per run and after the last file.
C23_OnlyPruningRemoves ==
    [][/\ last'.op # "build_done" => Grows(graph, graph')
       /\ last'.op = "build_done" => pc = "files" /\ pc' = "idle"
       /\ last'.op \in {"build_file", "build_raised"} => pc = "files"]_vars

\* a file ingested into a graph that has an edge, merging into a node, in a
\* builder whose budget is smaller than its graph
C23_Witness ==
    /\ last.op = "build_file"
    /\ pc = "files"
    /\ EdgeSet(graph) # {}
    /\ \E n \in NodeSet(graph) : graph.data[n].count >= 2
    /\ Len(graph.nodes) > max_nodes

----------------------------------------------------------------------------
(* WikipediaIngester (src/src/ingestion/wikipedia.py): fetch_article and   *)
(* fetch_articles over a wikipedia.page that finds a page, asks to         *)
(* disambiguate, or fails                                                  *)

\* topics handed to fetch_articles
MaxTopics == 3
\* nested fetch_article calls that the interpreter's recursion limit allows
MaxDepth == 3

DefaultMaxArticles == 10

Titles == {"t1", "t2", "t3"}

\* what wikipedia.page(title) does
Page == [kind |-> "page"]
PageError == [kind |-> "PageError"]
OtherError == [kind |-> "Exception"]
DisambiguationError(options) == [kind |-> "DisambiguationError", options |-> options]
Answers ==
    {Page, PageError, OtherError, DisambiguationError(<<>>)}
        \cup {DisambiguationError(<<t>>) : t \in Titles}

\* the dict fetch_article builds from the page
article_data(title) ==
    [title |-> title, url |-> "url", content |-> "content", summary |-> "summary",
     categories |-> "categories", links |-> "links", fetch_timestamp |-> "time"]

\* fetch_article returns None
NoArticle == [returned |-> "None"]
\* fetch_article is left by an exception
Raised == [raised |-> "RecursionError"]

\* the outcomes of fetch_article(title) as the depth-th nested call: the article,
\* None, or an exception that leaves the call. A call beyond the recursion limit
\* raises RecursionError inside the try block; the handler of `except Exception`
\* prints before it returns None and raises again when it has no room either.
\* An exception out of the nested call at line 74 leaves the handler it is in.
RECURSIVE fetch_article(_, _, _)
fetch_article(wiki, title, depth) ==
    IF depth > MaxDepth THEN {NoArticle, Raised}
    ELSE CASE wiki[title].kind = "page" -> {article_data(title)}
           [] wiki[title].kind = "DisambiguationError" ->
                  IF wiki[title].options # <<>>
                  THEN fetch_article(wiki, wiki[title].options[1], depth + 1)
                  ELSE {NoArticle}
           [] wiki[title].kind = "PageError" -> {NoArticle}
           [] wiki[title].kind = "Exception" -> {NoArticle}

\* topics[:max_articles], max_articles >= 0
first_topics(topics, max_articles) ==
    SubSeq(topics, 1, Min(max_articles, Len(topics)))

\* fetch_articles(topics, max_articles) is called
FetchCall(wiki, topics, max_articles) ==
    [status |-> "loop", wiki |-> wiki, topics |-> topics,
     max_articles |-> max_articles, i |-> 1, articles |-> <<>>, fetched |-> <<>>,
     saved |-> {}]

\* one turn of the loop of fetch_articles: fetch_article, and for an article
\* append and save_article; an exception out of fetch_article ends the call
FetchNext ==
    /\ ingester.status = "loop"
    /\ ingester.i <= Len(first_topics(ingester.topics, ingester.max_articles))
    /\ \E article \in fetch_article(ingester.wiki, ingester.topics[ingester.i], 1) :
        ingester' =
            IF article = Raised
            THEN [ingester EXCEPT !.status = "raised", !.fetched = Append(@, article)]
            ELSE IF article # NoArticle
            THEN [ingester EXCEPT !.i = @ + 1,
                                  !.fetched = Append(@, article),
                                  !.articles = Append(@, article),
                                  !.saved = @ \cup {article}]
            ELSE [ingester EXCEPT !.i = @ + 1, !.fetched = Append(@, article)]
    /\ UNCHANGED <<graph, min_confidence, max_nodes, pc, disk, created, seen, last,
                   frames, serialized>>

\* the loop is over: return articles
FetchReturn ==
    /\ ingester.status = "loop"
    /\ ingester.i > Len(first_topics(ingester.topics, ingester.max_articles))
    /\ ingester' = [ingester EXCEPT !.status = "returned"]
    /\ UNCHANGED <<graph, min_confidence, max_nodes, pc, disk, created, seen, last,
                   frames, serialized>>

InitIngest ==
    /\ InitBuilder({DefaultMaxNodes}, {TRUE})
    /\ \E wiki \in [Titles -> Answers] :
       \E topics \in SeqsUpTo(Titles, MaxTopics) :
       \E max_articles \in {0, 1, 2, DefaultMaxArticles} :
           ingester = FetchCall(wiki, topics, max_articles)
NextIngest == FetchNext \/ FetchReturn
SpecIngest == InitIngest /\ [][NextIngest]_vars

\* the result the claim gives for a topic
Found(wiki, title) == wiki[title].kind = "page"
Failed(wiki, title) == wiki[title].kind \in {"PageError", "Exception"}

\* C24: fetch_article lets no exception out: it returns None when the page is
\* not found or another error occurs, and a dict with title, content and
\* fetch_timestamp on success; fetch_articles returns exactly the articles
\* fetched among the first max_articles topics, in topic order.
C24_FetchNeverRaises ==
    ingester.status # "none" =>
        LET tried == first_topics(ingester.topics, ingester.max_articles) IN
        /\ ingester.status # "raised"
        /\ \A i \in DOMAIN ingester.fetched :
               /\ ingester.fetched[i] # Raised
               /\ Failed(ingester.wiki, tried[i]) => ingester.fetched[i] = NoArticle
               /\ Found(ingester.wiki, tried[i]) =>
                      /\ ingester.fetched[i] # NoArticle
                      /\ {"title", "content", "fetch_timestamp"}
                             \subseteq DOMAIN ingester.fetched[i]
        /\ ingester.articles = SelectSeq(ingester.fetched, LAMBDA a : a # NoArticle)
        /\ ingester.status = "returned" => Len(ingester.fetched) = Len(tried)

----------------------------------------------------------------------------
(* What pruning leaves alone (checked in SpecReport)                       *)

\* C25: a prune removes the discarded nodes and the edges with a discarded
\* endpoint and nothing else: every retained node keeps text, label,
\* confidence, count and sources, and every edge between retained nodes stays
\* with its type, weight and count.
C25_PruneFrame ==
    Pruned =>
        LET G == last.before
            kept == NodeSet(graph)
        IN /\ kept \subseteq NodeSet(G)
           /\ Len(graph.nodes) = Cardinality(kept)
           /\ graph.data = Restrict(G.data, kept)
           /\ EdgeSet(graph) = {e \in EdgeSet(G) : e[1] \in kept /\ e[2] \in kept}
           /\ \A e \in EdgeSet(graph) : graph.edges[e] = G.edges[e]

\* a prune that kept an edge between two retained nodes and removed an edge
\* whose source was retained and whose target was discarded
C25_Witness ==
    /\ Pruned
    /\ \E e \in EdgeSet(graph) : e[1] # e[2]
    /\ \E e \in EdgeSet(last.before) : e[1] \in NodeSet(graph) /\ e[2] \notin NodeSet(graph)

----------------------------------------------------------------------------
(* Graphs built by build_from_extractions alone: files that repeat texts,  *)
(* within a file and from file to file                                     *)

\* sum of the node counts of the graph
MaxBuildCount == 5
\* sum of the edge counts of the graph
MaxBuildEdges == 4
\* entities of one extraction file
MaxBuildDocLen == 3
\* max_nodes of a builder that prunes
BuildBudget == 2

BuildEntities ==
    {Ent(<<"a">>, <<"X">>, <<4, 5>>), Ent(<<"b">>, <<"X">>, <<4, 5>>),
     Ent(<<"a">>, <<"Y">>, <<4, 5>>), Ent(<<"b">>, <<"X">>, <<1, 5>>)}
BuildDocs(es) == [doc_id |-> "d1", entities |-> es]

InitBuild == InitWith({BuildBudget, DefaultMaxNodes})
BuildFileBuild ==
    \E es \in SeqsUpTo(BuildEntities, MaxBuildDocLen) :
        BuildFile({BuildDocs(es)}, Limit(MaxBuildCount, MaxBuildEdges), TRUE)
NextBuild == BuildStart \/ BuildFileBuild \/ BuildPrune
SpecBuild == InitBuild /\ [][NextBuild]_vars

\* the node a text resolves to: the first node of G with that text
ResolvedTo(G, text) ==
    G.nodes[CHOOSE i \in DOMAIN G.nodes :
                /\ G.data[G.nodes[i]].text = text
                /\ \A j \in 1..(i - 1) : G.data[G.nodes[j]].text # text]

\* the candidate pairs of a file (positions i < j at most Window apart among
\* the entities at the threshold) that resolve in G to the node pair edge
PairsResolvedTo(G, data, edge) ==
    LET e == KeptEntities(data) IN
    {p \in (DOMAIN e) \X (DOMAIN e) :
        /\ 1 <= p[2] - p[1]
        /\ p[2] - p[1] <= Window
        /\ ResolvedTo(G, e[p[1]].text) = edge[1]
        /\ ResolvedTo(G, e[p[2]].text) = edge[2]}

\* C26: in a graph built by build_from_extractions alone, after every file each
\* edge has type CO_OCCURS, count >= 1 and weight count/2, and the file has
\* raised its count (from 0 for a new edge) by the number of the file's
\* candidate pairs that resolved to its node pair.
C26_CoOccurrenceCounts ==
    [][last'.op = "build_file" =>
         \A edge \in EdgeSet(graph') :
             /\ graph'.edges[edge].type = <<"C", "O">>
             /\ graph'.edges[edge].count >= 1
             /\ graph'.edges[edge].weight = Rat(graph'.edges[edge].count, 2)
             /\ graph'.edges[edge].count =
                    (IF edge \in EdgeSet(graph) THEN graph.edges[edge].count ELSE 0)
                        + Cardinality(PairsResolvedTo(graph', last'.data, edge))]_vars

\* a file that raised the count of an edge of an earlier file and made a new
\* edge besides
C26_Witness ==
    /\ last.op = "build_file"
    /\ \E edge \in EdgeSet(last.before) :
           graph.edges[edge].count > last.before.edges[edge].count
    /\ EdgeSet(graph) # EdgeSet(last.before)

====
